---- MODULE Spec2Model ----
(***************************************************************************)
(* YAJL bindings for Sparkling (yajl_sparkling.c): the parse-side Builder  *)
(* stack machine driven by the Lexer's callbacks, the json_parse driver,   *)
(* the recursive emitter generate_recursive and the json_generate driver.  *)
(***************************************************************************)
EXTENDS Integers, Sequences, FiniteSets, TLC

\* Bounds of the model.
MaxEvents == 6      \* Lexer events delivered during one parse of arbitrary text
MaxDepth == 3       \* containers the Lexer lets be open at once
MaxNodes == 3       \* nodes (scalars, containers, keys) of a value given to generate

(***************************************************************************)
(* The host's value model (SpnValue).  Every value is a record of the same *)
(* shape: t the type, n the integer payload, str the string payload, s the *)
(* children (an array's elements in index order; a hashmap's pairs in      *)
(* iteration order, flattened to key, value, key, value, ...).             *)
(***************************************************************************)
Val(t, n, str, s) == [t |-> t, n |-> n, str |-> str, s |-> s]

spn_nilval == Val("nil", 0, "", <<>>)

\* the special 'null' value: a weak userinfo whose pointer is its own address
null_value == Val("userinfo", 0, "null_value", <<>>)

spn_makebool(b) == Val("bool", IF b THEN 1 ELSE 0, "", <<>>)
spn_makeint(i) == Val("int", i, "", <<>>)
spn_makefloat(d) == Val("float", d, "", <<>>)
spn_makestring_len(str) == Val("string", 0, str, <<>>)
spn_makearray == Val("array", 0, "", <<>>)
spn_makehashmap == Val("hashmap", 0, "", <<>>)

spn_isnil(v) == v.t = "nil"
spn_isbool(v) == v.t = "bool"
spn_isint(v) == v.t = "int"
spn_isstring(v) == v.t = "string"
spn_isarray(v) == v.t = "array"
spn_ishashmap(v) == v.t = "hashmap"
spn_boolvalue(v) == v.n = 1

spn_valtype(v) ==
    CASE v.t = "nil" -> "SPN_TTAG_NIL"
      [] v.t = "bool" -> "SPN_TTAG_BOOL"
      [] v.t \in {"int", "float"} -> "SPN_TTAG_NUMBER"
      [] v.t = "string" -> "SPN_TTAG_STRING"
      [] v.t = "array" -> "SPN_TTAG_ARRAY"
      [] v.t = "hashmap" -> "SPN_TTAG_HASHMAP"
      [] v.t = "userinfo" -> "SPN_TTAG_USERINFO"
      [] OTHER -> "SPN_TTAG_FUNC"

spn_value_equal(a, b) == a = b

spn_array_push(array, value) == [array EXCEPT !.s = Append(@, value)]

RECURSIVE KeyIndex(_, _, _)
KeyIndex(s, key, i) ==
    IF i > Len(s) THEN 0
    ELSE IF s[i] = key THEN i
    ELSE KeyIndex(s, key, i + 2)

spn_hashmap_get(hashmap, key) ==
    LET i == KeyIndex(hashmap.s, key, 1)
    IN  IF i = 0 THEN spn_nilval ELSE hashmap.s[i + 1]

spn_hashmap_get_strkey(hashmap, name) ==
    spn_hashmap_get(hashmap, spn_makestring_len(name))

\* Setting a key to nil removes the pair; setting a present key replaces its
\* value in place; a new key is added at the end of the iteration order.
spn_hashmap_set(hashmap, key, val) ==
    LET i == KeyIndex(hashmap.s, key, 1)
    IN  IF spn_isnil(val)
        THEN IF i = 0 THEN hashmap
             ELSE [hashmap EXCEPT !.s = SubSeq(@, 1, i - 1) \o SubSeq(@, i + 2, Len(@))]
        ELSE IF i = 0 THEN [hashmap EXCEPT !.s = @ \o <<key, val>>]
        ELSE [hashmap EXCEPT !.s[i + 1] = val]

(***************************************************************************)
(* Parser state: root, the stack of StackNodes (head first), explicit_null *)
(***************************************************************************)
StackNode(key, value) == [key |-> key, value |-> value]

state_init == [root |-> spn_nilval, stack |-> <<>>, explicit_null |-> FALSE]

\* Mutant of state_push: the key of the new node is not nil.
state_push_key_set(st, collection) ==
    [st EXCEPT !.stack = <<StackNode(spn_makestring_len(""), collection)>> \o @]

state_push(st, collection) ==
    [st EXCEPT !.stack = <<StackNode(spn_nilval, collection)>> \o @]

\* the two assertions of state_pop
state_pop_asserts(st) == st.stack # <<>> /\ spn_isnil(Head(st.stack).key)

\* Mutant of state_pop_state: the head stays on the stack.
state_pop_keeps(st) == st

\* what state_pop leaves and what it returns
state_pop_state(st) == [st EXCEPT !.stack = Tail(@)]
state_pop_value(st) == Head(st.stack).value

\* the assertions that set_value reaches for this state
set_value_asserts(st) ==
    \/ st.stack = <<>>
    \/ spn_isarray(Head(st.stack).value)
    \/ spn_ishashmap(Head(st.stack).value) /\ spn_isstring(Head(st.stack).key)

\* Mutant of set_value: the key of the hashmap's node is not reset.
set_value_keeps_key(st, value) ==
    IF st.stack = <<>> THEN [st EXCEPT !.root = value]
    ELSE IF spn_isarray(Head(st.stack).value)
    THEN [st EXCEPT !.stack[1].value = spn_array_push(@, value)]
    ELSE IF spn_ishashmap(Head(st.stack).value)
    THEN [st EXCEPT !.stack[1].value = spn_hashmap_set(@, st.stack[1].key, value)]
    ELSE st

\* Mutant of set_value: nil is not a value to store.
set_value_skip_nil(st, value) ==
    IF spn_isnil(value) THEN st
    ELSE IF st.stack = <<>> THEN [st EXCEPT !.root = value]
    ELSE IF spn_isarray(Head(st.stack).value)
    THEN [st EXCEPT !.stack[1].value = spn_array_push(@, value)]
    ELSE IF spn_ishashmap(Head(st.stack).value)
    THEN [st EXCEPT !.stack[1] =
              StackNode(spn_nilval, spn_hashmap_set(@.value, @.key, value))]
    ELSE st

\* Mutant of set_value: the root is assigned whatever the stack holds.
set_value_root_always(st, value) ==
    IF st.stack = <<>> THEN [st EXCEPT !.root = value]
    ELSE IF spn_isarray(Head(st.stack).value)
    THEN [st EXCEPT !.root = value, !.stack[1].value = spn_array_push(@, value)]
    ELSE IF spn_ishashmap(Head(st.stack).value)
    THEN [st EXCEPT !.root = value,
                    !.stack[1] =
                        StackNode(spn_nilval, spn_hashmap_set(@.value, @.key, value))]
    ELSE st

\* Mutant of set_value: a key the map already holds keeps its first value.
set_value_first_wins(st, value) ==
    IF st.stack = <<>> THEN [st EXCEPT !.root = value]
    ELSE IF spn_isarray(Head(st.stack).value)
    THEN [st EXCEPT !.stack[1].value = spn_array_push(@, value)]
    ELSE IF spn_ishashmap(Head(st.stack).value)
    THEN [st EXCEPT !.stack[1] =
              StackNode(spn_nilval,
                        IF KeyIndex(@.value.s, @.key, 1) # 0 THEN @.value
                        ELSE spn_hashmap_set(@.value, @.key, value))]
    ELSE st

\* Mutant of set_value: a new array element goes to the front.
set_value_prepend(st, value) ==
    IF st.stack = <<>> THEN [st EXCEPT !.root = value]
    ELSE IF spn_isarray(Head(st.stack).value)
    THEN [st EXCEPT !.stack[1].value.s = <<value>> \o @]
    ELSE IF spn_ishashmap(Head(st.stack).value)
    THEN [st EXCEPT !.stack[1] =
              StackNode(spn_nilval, spn_hashmap_set(@.value, @.key, value))]
    ELSE st

set_value(st, value) ==
    IF st.stack = <<>> THEN [st EXCEPT !.root = value]
    ELSE IF spn_isarray(Head(st.stack).value)
    THEN [st EXCEPT !.stack[1].value = spn_array_push(@, value)]
    ELSE IF spn_ishashmap(Head(st.stack).value)
    THEN [st EXCEPT !.stack[1] =
              StackNode(spn_nilval, spn_hashmap_set(@.value, @.key, value))]
    ELSE st

\* Mutant of cb_null: the explicit-null mode is not looked at.
cb_null_nil(st) == set_value(st, spn_nilval)

\* Parser callbacks, as functions of the parser state
cb_null(st) == set_value(st, IF st.explicit_null THEN null_value ELSE spn_nilval)
cb_boolean(st, boolval) == set_value(st, spn_makebool(boolval))
cb_integer(st, intval) == set_value(st, spn_makeint(intval))
cb_double(st, doubleval) == set_value(st, spn_makefloat(doubleval))
cb_string(st, strval) == set_value(st, spn_makestring_len(strval))
cb_start_map(st) == state_push(st, spn_makehashmap)
cb_map_key_asserts(st) == st.stack # <<>> /\ spn_isnil(Head(st.stack).key)
cb_map_key(st, key) == [st EXCEPT !.stack[1].key = spn_makestring_len(key)]
cb_end_map(st) == set_value(state_pop_state(st), state_pop_value(st))
cb_start_array(st) == state_push(st, spn_makearray)
cb_end_array(st) == set_value(state_pop_state(st), state_pop_value(st))

(***************************************************************************)
(* Lexer events and Writer tokens share one shape: e the kind, n and str   *)
(* the payload.                                                            *)
(***************************************************************************)
Event(e, n, str) == [e |-> e, n |-> n, str |-> str]

\* Payloads the Lexer delivers when the text is arbitrary.  (Booleans and
\* doubles reach the Builder from the texts that generate wrote.)
Ints == {1}
Strings == {"a"}
Keys == {"a", "b"}

VARIABLES
    pc,         \* where the host / the running call is
    call,       \* the running call: fn, argc, argv; value: what generate was given
    state,      \* ParserState of the running parse
    yajl_hndl,  \* the Lexer handle: life cycle, options, its own nesting state
    text,       \* the text the Lexer reads
    events,     \* the events the Lexer has delivered, in order
    gen,        \* the Writer handle: life cycle, options, nesting state, buffer
    gstack,     \* the activation records of generate_recursive, innermost first
    ret,        \* the caller's result slot *ret
    rv,         \* the return value of the call
    trace,      \* resource and reporting operations of the call, in order
    heap        \* the reference-counted objects the Builder has created

vars == <<pc, call, state, yajl_hndl, text, events, gen, gstack, ret, rv, trace, heap>>

\* *ret before the call writes it
Unwritten == Val("unwritten", 0, "", <<>>)

\* A string argument whose bytes the model leaves open (n = 1): the Lexer
\* reads any event sequence out of it.  A string with n = 0 is the Writer's
\* buffer and s holds its tokens.
AnyText == Val("string", 1, "", <<>>)

(***************************************************************************)
(* The Lexer (yajl_handle).  stack: its own nesting state, innermost first *)
(* ("array", "map_key": a key or the end of the map comes next, "map_val": *)
(* a value comes next); done: the top-level value is complete; err: it has *)
(* reported an error; pending: a number at the very end of the fed text,   *)
(* read only when the parse is completed.                                  *)
(***************************************************************************)
yajl_none ==
    [st |-> "none", allow_comments |-> FALSE, stack |-> <<>>, done |-> FALSE,
     err |-> FALSE, pending |-> <<>>]

yajl_alloc == [yajl_none EXCEPT !.st = "live"]

yajl_config(hndl, opt, val) == [hndl EXCEPT ![opt] = val]

LexWantsValue(hndl) ==
    /\ ~hndl.err
    /\ IF hndl.stack = <<>> THEN ~hndl.done
       ELSE Head(hndl.stack) \in {"array", "map_val"}

LexWantsKey(hndl) ==
    ~hndl.err /\ hndl.stack # <<>> /\ Head(hndl.stack) = "map_key"

\* the Lexer's state after a complete value
LexGotValue(hndl) ==
    IF hndl.stack = <<>> THEN [hndl EXCEPT !.done = TRUE]
    ELSE IF Head(hndl.stack) = "map_val" THEN [hndl EXCEPT !.stack[1] = "map_key"]
    ELSE hndl

LexAccepts(hndl, ev) ==
    CASE ev.e \in {"null", "boolean", "integer", "double", "string"} ->
            LexWantsValue(hndl)
      [] ev.e \in {"start_map", "start_array"} ->
            LexWantsValue(hndl)
      [] ev.e = "map_key" -> LexWantsKey(hndl)
      [] ev.e = "end_map" -> LexWantsKey(hndl)
      [] ev.e = "end_array" ->
            ~hndl.err /\ hndl.stack # <<>> /\ Head(hndl.stack) = "array"
      [] OTHER -> FALSE

LexAfter(hndl, ev) ==
    CASE ev.e = "start_map" -> [hndl EXCEPT !.stack = <<"map_key">> \o @]
      [] ev.e = "start_array" -> [hndl EXCEPT !.stack = <<"array">> \o @]
      [] ev.e = "map_key" -> [hndl EXCEPT !.stack[1] = "map_val"]
      [] ev.e \in {"end_map", "end_array"} ->
            LexGotValue([hndl EXCEPT !.stack = Tail(@)])
      [] OTHER -> LexGotValue(hndl)

\* the event a token of a known text stands for, given the Lexer's state
TokenEvent(hndl, tok) ==
    CASE tok.e = "string" /\ LexWantsKey(hndl) -> Event("map_key", 0, tok.str)
      [] tok.e = "bool" -> Event("boolean", tok.n, "")
      [] tok.e = "map_open" -> Event("start_map", 0, "")
      [] tok.e = "map_close" -> Event("end_map", 0, "")
      [] tok.e = "array_open" -> Event("start_array", 0, "")
      [] tok.e = "array_close" -> Event("end_array", 0, "")
      [] OTHER -> tok

NoText == [known |-> FALSE, toks |-> <<>>, pos |-> 1]

TextLeft == text.known /\ text.pos <= Len(text.toks)

\* a number that ends the text stays in the Lexer until the parse is completed
IsNumber(ev) == ev.e \in {"integer", "double"}
LastNumber ==
    text.known /\ text.pos = Len(text.toks) /\ IsNumber(text.toks[text.pos])

\* Events the Lexer can read out of an arbitrary text.
FreeEvents ==
    {Event("null", 0, "")}
    \cup {Event("integer", i, "") : i \in Ints}
    \cup {Event("string", 0, str) : str \in Strings}
    \cup {Event("map_key", 0, key) : key \in Keys}
    \cup {Event(e, 0, "") : e \in {"start_map", "end_map", "start_array", "end_array"}}

\* The events the Lexer, inside yajl_parse, can deliver next.
Offer ==
    IF pc # "yajl_parse" THEN {}
    ELSE IF text.known
    THEN IF TextLeft /\ ~LastNumber
         THEN {ev \in {TokenEvent(yajl_hndl, text.toks[text.pos])} :
                  LexAccepts(yajl_hndl, ev)}
         ELSE {}
    ELSE {ev \in FreeEvents :
             /\ Len(events) < MaxEvents
             /\ LexAccepts(yajl_hndl, ev)
             /\ ev.e \in {"start_map", "start_array"} => Len(yajl_hndl.stack) < MaxDepth}

(***************************************************************************)
(* The Writer (yajl_gen) before a call allocates one.                      *)
(***************************************************************************)
gen_none ==
    [st |-> "none", beautify |-> FALSE, indent |-> "", escape_solidus |-> FALSE,
     stack |-> <<>>, buf |-> <<>>]

(***************************************************************************)
(* Ownership.  Strings, arrays and hashmaps are reference-counted objects  *)
(* of the host; nil, booleans, numbers and the weak userinfo null_value    *)
(* are not (id 0).  objs: one record per object the Builder created, in    *)
(* order of creation; kids: the ids a container holds a reference to (a    *)
(* hashmap: key, value, key, value, ...); root and stack: the ids held by  *)
(* state.root and by the nodes of state.stack; cur: the object made last;  *)
(* bad: releases of an object already freed.                               *)
(***************************************************************************)
heap_none == [objs |-> <<>>, root |-> 0, stack |-> <<>>, cur |-> 0, bad |-> 0]

\* spn_makestring_len, spn_makearray, spn_makehashmap: a new object, one owner
spn_object_new(h, kind, str) ==
    [h EXCEPT !.objs = Append(@, [kind |-> kind, str |-> str, rc |-> 1, kids |-> <<>>,
                                  freed |-> FALSE]),
              !.cur = Len(h.objs) + 1]

spn_value_retain(h, id) == IF id = 0 THEN h ELSE [h EXCEPT !.objs[id].rc = @ + 1]

\* the last release frees the object, which releases what it holds
RECURSIVE spn_value_release(_, _), ReleaseAll(_, _)
spn_value_release(h, id) ==
    IF id = 0 THEN h
    ELSE IF h.objs[id].freed THEN [h EXCEPT !.bad = @ + 1]
    ELSE IF h.objs[id].rc > 1 THEN [h EXCEPT !.objs[id].rc = @ - 1]
    ELSE ReleaseAll([h EXCEPT !.objs[id].rc = 0, !.objs[id].freed = TRUE],
                    h.objs[id].kids)
ReleaseAll(h, ids) ==
    IF ids = <<>> THEN h ELSE ReleaseAll(spn_value_release(h, Head(ids)), Tail(ids))

\* spn_array_push retains the element
rc_array_push(h, array, id) ==
    spn_value_retain([h EXCEPT !.objs[array].kids = Append(@, id)], id)

\* where the hashmap holds a key equal to the string key, or 0
RECURSIVE rc_key_index(_, _, _, _)
rc_key_index(h, kids, key, i) ==
    IF i > Len(kids) THEN 0
    ELSE IF h.objs[kids[i]].str = h.objs[key].str THEN i
    ELSE rc_key_index(h, kids, key, i + 2)

\* spn_hashmap_set: a nil value removes the pair and releases its key and
\* value; a new pair retains both; a new value for a key it holds is
\* retained and the old one released
rc_hashmap_set(h, hm, key, id, isnil) ==
    LET kids == h.objs[hm].kids
        i == rc_key_index(h, kids, key, 1)
    IN  IF isnil
        THEN IF i = 0 THEN h
             ELSE spn_value_release(
                      spn_value_release(
                          [h EXCEPT !.objs[hm].kids =
                               SubSeq(kids, 1, i - 1) \o SubSeq(kids, i + 2, Len(kids))],
                          kids[i]),
                      kids[i + 1])
        ELSE IF i = 0
        THEN spn_value_retain(
                 spn_value_retain([h EXCEPT !.objs[hm].kids = kids \o <<key, id>>], key),
                 id)
        ELSE spn_value_release(
                 spn_value_retain([h EXCEPT !.objs[hm].kids[i + 1] = id], id),
                 kids[i + 1])

\* Mutant of rc_set_value: the value pushed to an array is not released.
rc_set_value_unreleased(h, id, isnil) ==
    IF h.stack = <<>> THEN [h EXCEPT !.root = id]
    ELSE LET top == Head(h.stack)
         IN  IF h.objs[top.value].kind = "array"
             THEN rc_array_push(h, top.value, id)
             ELSE [spn_value_release(
                       spn_value_release(rc_hashmap_set(h, top.value, top.key, id, isnil),
                                         top.key),
                       id) EXCEPT !.stack[1].key = 0]

\* set_value: the references it takes and gives up
rc_set_value(h, id, isnil) ==
    IF h.stack = <<>> THEN [h EXCEPT !.root = id]
    ELSE LET top == Head(h.stack)
         IN  IF h.objs[top.value].kind = "array"
             THEN spn_value_release(rc_array_push(h, top.value, id), id)
             ELSE [spn_value_release(
                       spn_value_release(rc_hashmap_set(h, top.value, top.key, id, isnil),
                                         top.key),
                       id) EXCEPT !.stack[1].key = 0]

rc_state_push(h, id) == [h EXCEPT !.stack = <<[key |-> 0, value |-> id]>> \o @]

\* the callbacks
rc_callback(h, ev, explicit_null) ==
    CASE ev.e = "null" -> rc_set_value(h, 0, ~explicit_null)
      [] ev.e \in {"boolean", "integer", "double"} -> rc_set_value(h, 0, FALSE)
      [] ev.e = "string" ->
            LET h1 == spn_object_new(h, "string", ev.str)
            IN  rc_set_value(h1, h1.cur, FALSE)
      [] ev.e = "start_map" ->
            LET h1 == spn_object_new(h, "hashmap", "") IN rc_state_push(h1, h1.cur)
      [] ev.e = "start_array" ->
            LET h1 == spn_object_new(h, "array", "") IN rc_state_push(h1, h1.cur)
      [] ev.e = "map_key" ->
            LET h1 == spn_object_new(h, "string", ev.str)
            IN  [h1 EXCEPT !.stack[1].key = h1.cur]
      [] ev.e \in {"end_map", "end_array"} ->
            rc_set_value([h EXCEPT !.stack = Tail(@)], Head(h.stack).value, FALSE)
      [] OTHER -> h

\* the releases among the operations json_parse ends with
RECURSIVE rc_apply(_, _)
rc_apply(h, ops) ==
    IF ops = <<>> THEN h
    ELSE LET op == Head(ops)
             h2 == CASE op = "release_root" -> spn_value_release(h, h.root)
                     [] op \in {"release_key", "release_value", "free_node"}
                        /\ h.stack = <<>> -> [h EXCEPT !.bad = @ + 1]
                     [] op = "release_key" -> spn_value_release(h, Head(h.stack).key)
                     [] op = "release_value" -> spn_value_release(h, Head(h.stack).value)
                     [] op = "free_node" -> [h EXCEPT !.stack = Tail(@)]
                     [] OTHER -> h
         IN  rc_apply(h2, Tail(ops))

Init ==
    /\ pc = "idle"
    /\ call = [fn |-> "none", argc |-> 0, argv |-> <<>>, value |-> spn_nilval]
    /\ state = state_init
    /\ yajl_hndl = yajl_none
    /\ text = NoText
    /\ events = <<>>
    /\ gen = gen_none
    /\ gstack = <<>>
    /\ ret = Unwritten
    /\ rv = 0
    /\ trace = <<>>
    /\ heap = heap_none

(***************************************************************************)
(* The Lexer calls back.  An assertion of the Builder that fails aborts    *)
(* the process.                                                            *)
(***************************************************************************)
Deliver(ev, st2) ==
    /\ state' = st2
    /\ yajl_hndl' = LexAfter(yajl_hndl, ev)
    /\ events' = Append(events, ev)
    /\ text' = IF text.known THEN [text EXCEPT !.pos = @ + 1] ELSE text
    /\ heap' = rc_callback(heap, ev, state.explicit_null)
    /\ UNCHANGED <<pc, call, gen, gstack, ret, rv, trace>>

AssertFails ==
    /\ pc' = "abort"
    /\ UNCHANGED <<call, state, yajl_hndl, text, events, gen, gstack, ret, rv, trace,
                   heap>>

Callback(asserts, ev, st2) == IF asserts THEN Deliver(ev, st2) ELSE AssertFails

on_null ==
    \E ev \in Offer :
        ev.e = "null" /\ Callback(set_value_asserts(state), ev, cb_null(state))

on_boolean ==
    \E ev \in Offer :
        /\ ev.e = "boolean"
        /\ Callback(set_value_asserts(state), ev, cb_boolean(state, ev.n = 1))

on_integer ==
    \E ev \in Offer :
        ev.e = "integer" /\ Callback(set_value_asserts(state), ev, cb_integer(state, ev.n))

on_float ==
    \E ev \in Offer :
        ev.e = "double" /\ Callback(set_value_asserts(state), ev, cb_double(state, ev.n))

on_string ==
    \E ev \in Offer :
        ev.e = "string" /\ Callback(set_value_asserts(state), ev, cb_string(state, ev.str))

on_start_map ==
    \E ev \in Offer : ev.e = "start_map" /\ Callback(TRUE, ev, cb_start_map(state))

on_map_key ==
    \E ev \in Offer :
        ev.e = "map_key" /\ Callback(cb_map_key_asserts(state), ev, cb_map_key(state, ev.str))

on_end_map ==
    \E ev \in Offer :
        /\ ev.e = "end_map"
        /\ Callback(state_pop_asserts(state) /\ set_value_asserts(state_pop_state(state)),
                    ev, cb_end_map(state))

on_start_array ==
    \E ev \in Offer : ev.e = "start_array" /\ Callback(TRUE, ev, cb_start_array(state))

on_end_array ==
    \E ev \in Offer :
        /\ ev.e = "end_array"
        /\ Callback(state_pop_asserts(state) /\ set_value_asserts(state_pop_state(state)),
                    ev, cb_end_array(state))

(***************************************************************************)
(* Options of parse                                                        *)
(***************************************************************************)
parser_set_bool_option(parser, opt, config, name) ==
    LET optval == spn_hashmap_get_strkey(config, name)
    IN  IF spn_isbool(optval) THEN yajl_config(parser, opt, spn_boolvalue(optval))
        ELSE parser

\* Mutant of state_set_bool_option: the type of the value is not looked at.
state_set_bool_option_untyped(opt, config, name) ==
    LET optval == spn_hashmap_get_strkey(config, name)
    IN  IF spn_isnil(optval) THEN opt ELSE optval.t # "bool" \/ spn_boolvalue(optval)

state_set_bool_option(opt, config, name) ==
    LET optval == spn_hashmap_get_strkey(config, name)
    IN  IF spn_isbool(optval) THEN spn_boolvalue(optval) ELSE opt

\* config_parser: what it leaves in the Lexer handle and in the parser state
config_parser_hndl(parser, config) ==
    parser_set_bool_option(parser, "allow_comments", config, "comment")

config_parser_state(st, config) ==
    [st EXCEPT !.explicit_null = state_set_bool_option(@, config, "parse_null")]

\* a hashmap holding the given pairs (key, value, key, value, ...)
RECURSIVE HashMapOf(_)
HashMapOf(kv) ==
    IF kv = <<>> THEN spn_makehashmap
    ELSE spn_hashmap_set(HashMapOf(SubSeq(kv, 1, Len(kv) - 2)),
                         spn_makestring_len(kv[Len(kv) - 1]), kv[Len(kv)])

\* Options objects the host passes to parse.
ParseConfigs ==
    { HashMapOf(<<>>),
      HashMapOf(<<"parse_null", spn_makebool(TRUE), "comment", spn_makebool(TRUE)>>),
      HashMapOf(<<"parse_null", spn_makebool(FALSE)>>),
      HashMapOf(<<"parse_null", spn_makestring_len("a"), "comment", spn_makeint(1)>>),
      HashMapOf(<<"a", spn_makebool(TRUE)>>) }

\* Argument lists the host calls parse with.
ParseArgs ==
    {[argc |-> 0, argv |-> <<>>],
     [argc |-> 1, argv |-> <<AnyText>>],
     [argc |-> 1, argv |-> <<spn_makeint(1)>>],
     [argc |-> 2, argv |-> <<AnyText, spn_makestring_len("a")>>],
     [argc |-> 2, argv |-> <<spn_nilval, HashMapOf(<<>>)>>],
     [argc |-> 3, argv |-> <<AnyText, HashMapOf(<<>>), HashMapOf(<<>>)>>]}
    \cup {[argc |-> 2, argv |-> <<AnyText, c>>] : c \in ParseConfigs}

(***************************************************************************)
(* json_parse                                                              *)
(***************************************************************************)
\* Mutant of json_parse_args: the first argument is not checked.
json_parse_args_first_unchecked(argc, argv) ==
    IF argc < 1 \/ argc > 2 THEN -1
    ELSE IF argc >= 2 /\ ~spn_ishashmap(argv[2]) THEN -3
    ELSE 0

\* the argument checks: the return value they end the call with, or 0
json_parse_args(argc, argv) ==
    IF argc < 1 \/ argc > 2 THEN -1
    ELSE IF ~spn_isstring(argv[1]) THEN -2
    ELSE IF argc >= 2 /\ ~spn_ishashmap(argv[2]) THEN -3
    ELSE 0

json_parse_argerror(e) ==
    CASE e = -1 -> "runtime_error: expecting 1 or 2 arguments"
      [] e = -2 -> "runtime_error: 1st argument must be a string"
      [] OTHER -> "runtime_error: 2nd argument must be a config object"

\* from the entry of json_parse to the call of yajl_parse
json_parse_begin(argc, argv) ==
    LET e == json_parse_args(argc, argv)
    IN  /\ call' = [fn |-> "parse", argc |-> argc, argv |-> argv, value |-> call.value]
        /\ ret' = Unwritten
        /\ events' = <<>>
        /\ heap' = heap_none
        /\ gen' = gen_none
        /\ gstack' = <<>>
        /\ IF e # 0
           THEN /\ pc' = "done"
                /\ rv' = e
                /\ trace' = <<json_parse_argerror(e)>>
                /\ state' = state_init
                /\ yajl_hndl' = yajl_none
                /\ text' = NoText
           ELSE /\ pc' = "yajl_parse"
                /\ rv' = 0
                /\ trace' = <<"yajl_alloc">>
                /\ state' = IF argc >= 2 THEN config_parser_state(state_init, argv[2])
                            ELSE state_init
                /\ yajl_hndl' = IF argc >= 2 THEN config_parser_hndl(yajl_alloc, argv[2])
                                ELSE yajl_alloc
                /\ text' = [known |-> argv[1].n = 0, toks |-> argv[1].s, pos |-> 1]

\* the host calls parse on a text of its own
HostParse ==
    /\ pc = "idle"
    /\ \E a \in ParseArgs : json_parse_begin(a.argc, a.argv)

\* numbers the Lexer may still hold when an arbitrary text ends
NumberEvents == {Event("integer", i, "") : i \in Ints}

\* yajl_parse returns yajl_status_ok: the text is used up
yajl_parse_ok ==
    /\ pc = "yajl_parse"
    /\ ~yajl_hndl.err
    /\ \E p \in {<<>>} \cup {<<ev>> : ev \in NumberEvents} :
          /\ IF text.known
             THEN /\ ~TextLeft \/ LastNumber
                  /\ p = IF LastNumber THEN <<text.toks[text.pos]>> ELSE <<>>
             ELSE p # <<>> => Len(events) < MaxEvents
          /\ yajl_hndl' = [yajl_hndl EXCEPT !.pending = p]
    /\ pc' = "yajl_complete_parse"
    /\ rv' = 0
    /\ trace' = Append(trace, "yajl_parse: yajl_status_ok")
    /\ UNCHANGED <<call, state, text, events, gen, gstack, ret, heap>>

\* yajl_parse returns an error: a token the grammar does not allow here
\* (after the complete top-level value: trailing garbage)
yajl_parse_error ==
    /\ pc = "yajl_parse"
    /\ text.known =>
          /\ TextLeft /\ ~LastNumber
          /\ ~LexAccepts(yajl_hndl, TokenEvent(yajl_hndl, text.toks[text.pos]))
    /\ yajl_hndl' = [yajl_hndl EXCEPT !.err = TRUE]
    /\ pc' = "yajl_complete_parse"
    /\ rv' = -4
    /\ trace' = Append(trace, "yajl_parse: yajl_status_error")
    /\ UNCHANGED <<call, state, text, events, gen, gstack, ret, heap>>

\* Mutant of json_parse_complete_rv: the status is tested without rv == 0.
json_parse_complete_rv_unguarded(rvv, ok) == IF ~ok THEN -5 ELSE rvv

\* if (rv == 0 && status != yajl_status_ok) rv = -5
json_parse_complete_rv(rvv, ok) == IF rvv = 0 /\ ~ok THEN -5 ELSE rvv

\* yajl_complete_parse and the test of its status: a number held back is
\* read first (delivered if a value is due there, an error if not: after the
\* complete top-level value it is trailing garbage); the status is ok only if
\* the top-level value is complete
json_parse_complete ==
    /\ pc = "yajl_complete_parse"
    /\ LET held == yajl_hndl.pending # <<>> /\ ~yajl_hndl.err
           flush == held /\ LexWantsValue(yajl_hndl)
           ev == Head(yajl_hndl.pending)
           st2 == IF ~flush THEN state
                  ELSE IF ev.e = "integer" THEN cb_integer(state, ev.n)
                  ELSE cb_double(state, ev.n)
           h2 == IF flush THEN LexAfter([yajl_hndl EXCEPT !.pending = <<>>], ev)
                 ELSE IF held THEN [yajl_hndl EXCEPT !.pending = <<>>, !.err = TRUE]
                 ELSE yajl_hndl
           ok == ~h2.err /\ h2.done
       IN  IF flush /\ ~set_value_asserts(state) THEN AssertFails
           ELSE /\ state' = st2
                /\ yajl_hndl' = [h2 EXCEPT !.err = ~ok]
                /\ events' = IF flush THEN Append(events, ev) ELSE events
                /\ rv' = json_parse_complete_rv(rv, ok)
                /\ trace' = Append(trace, IF ok THEN "yajl_complete_parse: yajl_status_ok"
                                          ELSE "yajl_complete_parse: yajl_status_error")
                /\ pc' = "result"
                /\ heap' = IF flush THEN rc_callback(heap, ev, state.explicit_null)
                           ELSE heap
                /\ UNCHANGED <<call, text, gen, gstack, ret>>

\* if (rv == 0) *ret = state.root; else release the root and report:
\* what *ret holds afterwards, and the operations done
\* Mutant of json_parse_ret: *ret is written before rv is looked at.
json_parse_ret_always(rvv, root, old) == root

json_parse_ret(rvv, root, old) == IF rvv = 0 THEN root ELSE old

\* Mutant of json_parse_report: only a failed feed step is reported.
json_parse_report_feed_only(rvv) ==
    IF rvv = 0 THEN <<"set_ret">>
    ELSE IF rvv = -4
    THEN <<"release_root", "yajl_get_error", "runtime_error: error parsing JSON",
           "yajl_free_error">>
    ELSE <<"release_root">>

json_parse_report(rvv) ==
    IF rvv = 0 THEN <<"set_ret">>
    ELSE <<"release_root", "yajl_get_error", "runtime_error: error parsing JSON",
           "yajl_free_error">>

json_parse_result ==
    /\ pc = "result"
    /\ call.fn = "parse"
    /\ ret' = json_parse_ret(rv, state.root, ret)
    /\ trace' = trace \o json_parse_report(rv)
    /\ heap' = rc_apply(heap, json_parse_report(rv))
    /\ pc' = "teardown"
    /\ UNCHANGED <<call, state, yajl_hndl, text, events, gen, gstack, rv>>

\* Mutant of state_free: only the head node is released and freed.
state_free_head(stack) ==
    IF stack = <<>> THEN <<>> ELSE <<"release_key", "release_value", "free_node">>

\* state_free: every node still stacked has its key and its value released
\* and is freed, head first
RECURSIVE state_free(_)
state_free(stack) ==
    IF stack = <<>> THEN <<>>
    ELSE <<"release_key", "release_value", "free_node">> \o state_free(Tail(stack))

\* yajl_free(yajl_hndl); state_free(&state); return rv
json_parse_teardown ==
    /\ pc = "teardown"
    /\ call.fn = "parse"
    /\ yajl_hndl' = [yajl_hndl EXCEPT !.st = "freed"]
    /\ trace' = trace \o <<"yajl_free">> \o state_free(state.stack)
    /\ heap' = rc_apply(heap, <<"yajl_free">> \o state_free(state.stack))
    /\ state' = [state EXCEPT !.stack = <<>>]
    /\ pc' = "done"
    /\ UNCHANGED <<call, text, events, gen, gstack, ret, rv>>

(***************************************************************************)
(* The Writer (yajl_gen).  stack: its nesting state, innermost first       *)
(* ("array", "map_key": a key or the close of the map comes next,          *)
(* "map_val": a value comes next); done: the top-level value is complete.  *)
(***************************************************************************)
yajl_gen_alloc == [gen_none EXCEPT !.st = "live"]

yajl_gen_config(g, opt, val) == [g EXCEPT ![opt] = val]

GenAtKey(g) == g.stack # <<>> /\ Head(g.stack) = "map_key"

\* the Writer's nesting state after a complete value
GenAppended(stack) ==
    IF stack = <<>> THEN stack
    ELSE IF Head(stack) = "map_key" THEN <<"map_val">> \o Tail(stack)
    ELSE IF Head(stack) = "map_val" THEN <<"map_key">> \o Tail(stack)
    ELSE stack

\* The status of one Writer call.  fault: the Writer fails for a reason of
\* its own.  Otherwise it refuses anything but a string where a map's key is
\* due, and a number that is not finite (n = 0 of a "double" token).
yajl_gen_status(g, tok, fault) ==
    IF fault THEN "yajl_gen_error"
    ELSE IF GenAtKey(g) /\ tok.e \notin {"string", "map_close"}
    THEN "yajl_gen_keys_must_be_strings"
    ELSE IF tok.e = "double" /\ tok.n = 0 THEN "yajl_gen_invalid_number"
    ELSE "yajl_gen_status_ok"

\* the Writer after a call that returned yajl_gen_status_ok
yajl_gen_emit(g, tok) ==
    [g EXCEPT !.buf = Append(@, tok),
              !.stack = CASE tok.e = "array_open" -> <<"array">> \o @
                          [] tok.e = "map_open" -> <<"map_key">> \o @
                          [] tok.e \in {"array_close", "map_close"} -> GenAppended(Tail(@))
                          [] OTHER -> GenAppended(@)]

(***************************************************************************)
(* generate_recursive, one activation record per call in progress:         *)
(* node, and i: 0 before the switch, else the index of the next child      *)
(* (of the next key or value of a hashmap) to recurse into.                *)
(***************************************************************************)
Activation(node, i) == [node |-> node, i |-> i]

\* the Writer call this activation makes next: the token and the text of
\* the call as RETURN_IF_FAIL reports it; or what it does instead
generate_recursive_switch(node, i) ==
    LET tag == spn_valtype(node)
    IN  CASE tag = "SPN_TTAG_NIL" -> [do |-> "emit", tok |-> Event("null", 0, ""),
                                      what |-> "yajl_gen_null(gen)"]
          [] tag = "SPN_TTAG_BOOL" -> [do |-> "emit", tok |-> Event("bool", node.n, ""),
                                       what |-> "yajl_gen_bool(gen, spn_boolvalue(&node))"]
          [] tag = "SPN_TTAG_NUMBER" ->
                IF spn_isint(node)
                THEN [do |-> "emit", tok |-> Event("integer", node.n, ""),
                      what |-> "yajl_gen_integer(gen, spn_intvalue(&node))"]
                ELSE [do |-> "emit", tok |-> Event("double", node.n, ""),
                      what |-> "yajl_gen_double(gen, spn_floatvalue(&node))"]
          [] tag = "SPN_TTAG_STRING" -> [do |-> "emit", tok |-> Event("string", 0, node.str),
                                         what |-> "yajl_gen_string(gen, str, length)"]
          [] tag = "SPN_TTAG_ARRAY" ->
                IF i = 0 THEN [do |-> "open", tok |-> Event("array_open", 0, ""),
                               what |-> "yajl_gen_array_open(gen)"]
                ELSE IF i <= Len(node.s)
                THEN [do |-> "recurse", tok |-> Event("", 0, ""), what |-> ""]
                ELSE [do |-> "emit", tok |-> Event("array_close", 0, ""),
                      what |-> "yajl_gen_array_close(gen)"]
          [] tag = "SPN_TTAG_HASHMAP" ->
                IF i = 0 THEN [do |-> "open", tok |-> Event("map_open", 0, ""),
                               what |-> "yajl_gen_map_open(gen)"]
                ELSE IF i <= Len(node.s)
                THEN [do |-> "recurse", tok |-> Event("", 0, ""), what |-> ""]
                ELSE [do |-> "emit", tok |-> Event("map_close", 0, ""),
                      what |-> "yajl_gen_map_close(gen)"]
          [] tag = "SPN_TTAG_USERINFO" ->
                IF spn_value_equal(node, null_value)
                THEN [do |-> "emit", tok |-> Event("null", 0, ""),
                      what |-> "yajl_gen_null(gen)"]
                ELSE [do |-> "fail", tok |-> Event("", 0, ""),
                      what |-> "runtime_error: found non-serializable value"]
          [] OTHER -> [do |-> "fail", tok |-> Event("", 0, ""),
                       what |-> "runtime_error: found value of unknown type"]

\* Mutant of generate_recursive_call: nil is written as false.
generate_recursive_call_nil_false(node, i) ==
    IF spn_isnil(node)
    THEN [do |-> "emit", tok |-> Event("bool", 0, ""),
          what |-> "yajl_gen_bool(gen, 0)"]
    ELSE generate_recursive_switch(node, i)

\* Mutant of generate_recursive_call: the loops stop one child early.
generate_recursive_call_one_short(node, i) ==
    IF node.t \in {"array", "hashmap"} /\ i > 0 /\ i = Len(node.s)
    THEN generate_recursive_switch(node, i + 1)
    ELSE generate_recursive_switch(node, i)

\* Mutant of generate_recursive_call: an integer is written as a string.
generate_recursive_call_int_as_string(node, i) ==
    IF spn_isint(node)
    THEN [do |-> "emit", tok |-> Event("string", 0, "1"),
          what |-> "yajl_gen_string(gen, str, length)"]
    ELSE generate_recursive_switch(node, i)

\* Mutant of generate_recursive_call: every userinfo is written as null.
generate_recursive_call_userinfo_null(node, i) ==
    IF node.t = "userinfo"
    THEN [do |-> "emit", tok |-> Event("null", 0, ""), what |-> "yajl_gen_null(gen)"]
    ELSE generate_recursive_switch(node, i)

generate_recursive_call(node, i) == generate_recursive_switch(node, i)

\* Mutant of GenReturnError: the caller does not look at the error of the
\* call it made and goes on with its loop.
GenReturnError_ignored(msg) ==
    /\ gstack' = Tail(gstack)
    /\ rv' = -1
    /\ trace' = Append(trace, msg)
    /\ pc' = IF Tail(gstack) = <<>> THEN "teardown" ELSE pc
    /\ UNCHANGED <<call, state, yajl_hndl, text, events, gen, ret, heap>>

\* return -1, through every caller, to json_generate
GenReturnError(msg) ==
    /\ gstack' = <<>>
    /\ rv' = -1
    /\ trace' = Append(trace, msg)
    /\ pc' = "teardown"
    /\ UNCHANGED <<call, state, yajl_hndl, text, events, gen, ret, heap>>

\* return 0 to the caller, or to json_generate from the outermost call
GenReturnOk(g2) ==
    /\ gstack' = Tail(gstack)
    /\ gen' = g2
    /\ pc' = IF Tail(gstack) = <<>> THEN "get_buf" ELSE pc
    /\ UNCHANGED <<call, state, yajl_hndl, text, events, ret, rv, trace, heap>>

\* one step of the innermost activation of generate_recursive
generate_recursive ==
    /\ pc = "generate_recursive"
    /\ \E fault \in BOOLEAN :
        LET top == Head(gstack)
            c == generate_recursive_call(top.node, top.i)
            status == yajl_gen_status(gen, c.tok, fault)
        IN  CASE c.do = "fail" -> ~fault /\ GenReturnError(c.what)
              [] c.do = "recurse" ->
                    /\ ~fault
                    /\ gstack' = <<Activation(top.node.s[top.i], 0),
                                   Activation(top.node, top.i + 1)>> \o Tail(gstack)
                    /\ UNCHANGED <<pc, call, state, yajl_hndl, text, events, gen, ret,
                                   rv, trace, heap>>
              [] status # "yajl_gen_status_ok" ->
                    GenReturnError("runtime_error: YAJL error: " \o c.what)
              [] c.do = "open" ->
                    /\ gstack' = <<Activation(top.node, 1)>> \o Tail(gstack)
                    /\ gen' = yajl_gen_emit(gen, c.tok)
                    /\ UNCHANGED <<pc, call, state, yajl_hndl, text, events, ret, rv,
                                   trace, heap>>
              [] OTHER -> GenReturnOk(yajl_gen_emit(gen, c.tok))

(***************************************************************************)
(* Options of generate                                                     *)
(***************************************************************************)
gen_set_bool_option(g, opt, config, name) ==
    LET optval == spn_hashmap_get_strkey(config, name)
    IN  IF spn_isbool(optval) THEN yajl_gen_config(g, opt, spn_boolvalue(optval)) ELSE g

gen_set_string_option(g, opt, config, name) ==
    LET optval == spn_hashmap_get_strkey(config, name)
    IN  IF spn_isstring(optval) THEN yajl_gen_config(g, opt, optval.str) ELSE g

config_gen(g, config) ==
    gen_set_bool_option(
        gen_set_string_option(
            gen_set_bool_option(g, "beautify", config, "beautify"),
            "indent", config, "indent"),
        "escape_solidus", config, "escape_slash")

(***************************************************************************)
(* Values the host gives to generate: every value of at most MaxNodes      *)
(* nodes (a scalar, a container and a hashmap key each count one), and the *)
(* nested examples of the documentation.                                   *)
(***************************************************************************)
\* a userinfo that is not the special null value, and a function value
OpaqueValue == Val("userinfo", 1, "opaque", <<>>)
FuncValue == Val("func", 0, "f", <<>>)
\* a float that is not finite
NotFinite == spn_makefloat(0)

GenScalars ==
    {spn_nilval, null_value, OpaqueValue, FuncValue, NotFinite, spn_makebool(TRUE),
     spn_makeint(1), spn_makefloat(15), spn_makestring_len("a")}

\* keys a host hashmap can hold
GenKeys == {spn_makestring_len("a"), spn_makestring_len("b"), spn_makeint(1)}

RECURSIVE ValuesOfSize(_), ForestsOfSize(_), HashMapsOfSize(_)
\* sequences of values with n nodes in all
ForestsOfSize(n) ==
    IF n = 0 THEN {<<>>}
    ELSE UNION {{<<v>> \o f : v \in ValuesOfSize(k), f \in ForestsOfSize(n - k)} :
                   k \in 1..n}

\* hashmaps with n nodes in all, built by spn_hashmap_set in every order
HashMapsOfSize(n) ==
    IF n = 1 THEN {spn_makehashmap}
    ELSE UNION {{spn_hashmap_set(m, key, v) :
                    m \in {x \in HashMapsOfSize(n - 1 - j) :
                              \A key2 \in GenKeys : KeyIndex(x.s, key2, 1) = 0
                                                    \/ key2 # key},
                    v \in ValuesOfSize(j) \ {spn_nilval}} :
                   j \in 1..(n - 2), key \in GenKeys}

ValuesOfSize(n) ==
    IF n = 1 THEN GenScalars \cup {spn_makearray, spn_makehashmap}
    ELSE {Val("array", 0, "", f) : f \in ForestsOfSize(n - 1)} \cup HashMapsOfSize(n)

ArrayOf(elems) == Val("array", 0, "", elems)

\* [1,[2,3],{"k":4}], a hashmap of two pairs holding both nulls, and nesting
\* three deep
GenExamples ==
    { ArrayOf(<<spn_makeint(1), ArrayOf(<<spn_makeint(2), spn_makeint(3)>>),
                HashMapOf(<<"k", spn_makeint(4)>>)>>),
      HashMapOf(<<"b", ArrayOf(<<spn_nilval, null_value>>), "a", null_value>>),
      HashMapOf(<<"a", HashMapOf(<<"b", ArrayOf(<<spn_makestring_len("a")>>)>>),
                  "b", spn_makebool(FALSE)>>),
      ArrayOf(<<ArrayOf(<<ArrayOf(<<>>), spn_nilval>>), OpaqueValue>>) }

GenValues == UNION {ValuesOfSize(n) : n \in 1..MaxNodes} \cup GenExamples

\* Options objects the host passes to generate.
GenConfigs ==
    { HashMapOf(<<>>),
      HashMapOf(<<"beautify", spn_makebool(TRUE), "indent", spn_makestring_len("a"),
                  "escape_slash", spn_makebool(TRUE)>>),
      HashMapOf(<<"beautify", spn_makestring_len("a"), "indent", spn_makeint(1)>>),
      HashMapOf(<<"escape_slash", spn_makestring_len("a"), "a", spn_makebool(TRUE)>>) }

\* Argument lists the host calls generate with.
GenArgs ==
    {[argc |-> 0, argv |-> <<>>],
     [argc |-> 2, argv |-> <<spn_makeint(1), spn_makestring_len("a")>>],
     [argc |-> 3, argv |-> <<spn_makeint(1), HashMapOf(<<>>), HashMapOf(<<>>)>>]}
    \cup {[argc |-> 1, argv |-> <<v>>] : v \in GenValues}
    \cup {[argc |-> 2, argv |-> <<v, c>>] : v \in GenExamples, c \in GenConfigs}

(***************************************************************************)
(* json_generate                                                           *)
(***************************************************************************)
json_generate_args(argc, argv) ==
    IF argc < 1 \/ argc > 2 THEN -1
    ELSE IF argc >= 2 /\ ~spn_ishashmap(argv[2]) THEN -2
    ELSE 0

json_generate_argerror(e) ==
    IF e = -1 THEN "runtime_error: expecting 1 or 2 arguments"
    ELSE "runtime_error: 2nd argument must be a config object"

\* from the entry of json_generate to the call of generate_recursive
json_generate_begin(argc, argv) ==
    LET e == json_generate_args(argc, argv)
    IN  /\ call' = [fn |-> "generate", argc |-> argc, argv |-> argv,
                    value |-> IF argc >= 1 THEN argv[1] ELSE spn_nilval]
        /\ ret' = Unwritten
        /\ UNCHANGED <<state, yajl_hndl, text, events, heap>>
        /\ IF e # 0
           THEN /\ pc' = "done"
                /\ rv' = e
                /\ trace' = <<json_generate_argerror(e)>>
                /\ gen' = gen_none
                /\ gstack' = <<>>
           ELSE /\ pc' = "generate_recursive"
                /\ rv' = 0
                /\ trace' = <<"yajl_gen_alloc">>
                /\ gen' = IF argc >= 2 THEN config_gen(yajl_gen_alloc, argv[2])
                          ELSE yajl_gen_alloc
                /\ gstack' = <<Activation(argv[1], 0)>>

HostGenerate ==
    /\ pc = "idle"
    /\ \E a \in GenArgs : json_generate_begin(a.argc, a.argv)

\* the string made of the Writer's buffer
spn_makestring_buf(buf) == Val("string", 0, "", buf)

\* if (error == 0): yajl_gen_get_buf, and *ret or the error
json_generate_get_buf ==
    /\ pc = "get_buf"
    /\ \E fault \in BOOLEAN :
          IF ~fault
          THEN /\ ret' = spn_makestring_buf(gen.buf)
               /\ trace' = Append(trace, "set_ret")
               /\ rv' = rv
          ELSE /\ ret' = ret
               /\ trace' = Append(trace, "runtime_error: error generating JSON string")
               /\ rv' = -3
    /\ pc' = "teardown"
    /\ UNCHANGED <<call, state, yajl_hndl, text, events, gen, gstack, heap>>

\* yajl_gen_free(gen); return error
json_generate_teardown ==
    /\ pc = "teardown"
    /\ call.fn = "generate"
    /\ gen' = [gen EXCEPT !.st = "freed"]
    /\ trace' = Append(trace, "yajl_gen_free")
    /\ pc' = "done"
    /\ UNCHANGED <<call, state, yajl_hndl, text, events, gstack, ret, rv, heap>>

\* the host parses the text a successful generate returned
HostReparse ==
    /\ pc = "done"
    /\ call.fn = "generate"
    /\ rv = 0
    /\ \E c \in ParseConfigs : json_parse_begin(2, <<ret, c>>)

Next ==
    \/ HostParse
    \/ on_null \/ on_boolean \/ on_integer \/ on_float \/ on_string
    \/ on_start_map \/ on_map_key \/ on_end_map \/ on_start_array \/ on_end_array
    \/ yajl_parse_ok \/ yajl_parse_error
    \/ json_parse_complete \/ json_parse_result \/ json_parse_teardown
    \/ HostGenerate \/ generate_recursive \/ json_generate_get_buf
    \/ json_generate_teardown
    \/ HostReparse

Spec == Init /\ [][Next]_vars

(***************************************************************************)
(* Properties                                                              *)
(***************************************************************************)
RECURSIVE Count(_, _)
Count(seq, x) ==
    IF seq = <<>> THEN 0
    ELSE (IF Head(seq) = x THEN 1 ELSE 0) + Count(Tail(seq), x)

ParseDone == call.fn = "parse" /\ pc = "done"
GenerateDone == call.fn = "generate" /\ pc = "done"
\* the running parse reads the text an earlier generate returned
Reparse ==
    /\ call.fn = "parse" /\ call.argc >= 1
    /\ spn_isstring(call.argv[1]) /\ call.argv[1].n = 0

\* The tree an event sequence denotes, read off the events by recursive
\* descent: Denote*(evs, i, ...) is the value that starts at event i and the
\* index of the event after it.
RECURSIVE DenoteValue(_, _, _), DenoteArray(_, _, _, _), DenoteMap(_, _, _, _)
DenoteValue(evs, i, en) ==
    LET ev == evs[i]
    IN  CASE ev.e = "null" -> [v |-> IF en THEN null_value ELSE spn_nilval, next |-> i + 1]
          [] ev.e = "boolean" -> [v |-> Val("bool", ev.n, "", <<>>), next |-> i + 1]
          [] ev.e = "integer" -> [v |-> Val("int", ev.n, "", <<>>), next |-> i + 1]
          [] ev.e = "double" -> [v |-> Val("float", ev.n, "", <<>>), next |-> i + 1]
          [] ev.e = "string" -> [v |-> Val("string", 0, ev.str, <<>>), next |-> i + 1]
          [] ev.e = "start_array" -> DenoteArray(evs, i + 1, en, <<>>)
          [] ev.e = "start_map" -> DenoteMap(evs, i + 1, en, Val("hashmap", 0, "", <<>>))

DenoteArray(evs, i, en, elems) ==
    IF evs[i].e = "end_array" THEN [v |-> Val("array", 0, "", elems), next |-> i + 1]
    ELSE LET r == DenoteValue(evs, i, en)
         IN  DenoteArray(evs, r.next, en, elems \o <<r.v>>)

DenoteMap(evs, i, en, map) ==
    IF evs[i].e = "end_map" THEN [v |-> map, next |-> i + 1]
    ELSE LET r == DenoteValue(evs, i + 1, en)
         IN  DenoteMap(evs, r.next, en,
                       spn_hashmap_set(map, Val("string", 0, evs[i].str, <<>>), r.v))

\* C1: once the Lexer has delivered the events of one complete top-level
\* value, the root is the tree those events denote (array elements in event
\* order, each closed container attached to the frame below it or made the
\* root, each map value stored under the key of the map_key event before it),
\* and a successful parse returns that tree.
C1_RootIsDenotedTree ==
    (call.fn = "parse" /\ yajl_hndl.done) =>
        LET d == DenoteValue(events, 1, state.explicit_null)
        IN  /\ d.next = Len(events) + 1
            /\ state.root = d.v
            /\ (pc = "done" /\ rv = 0) => ret = d.v

\* C1 witness: parse has returned [1,[2,3],{"k":4}] with the order kept.
C1_Witness ==
    /\ ParseDone /\ rv = 0
    /\ ret = ArrayOf(<<spn_makeint(1), ArrayOf(<<spn_makeint(2), spn_makeint(3)>>),
                       HashMapOf(<<"k", spn_makeint(4)>>)>>)

\* C1 witness in an arbitrary text: an array holding a map and a scalar.
C1_WitnessFree ==
    /\ ParseDone /\ rv = 0 /\ ~Reparse
    /\ Len(events) = MaxEvents
    /\ spn_isarray(ret) /\ Len(ret.s) = 2 /\ spn_ishashmap(ret.s[1])

\* the Lexer's two steps as json_parse saw them
FeedOk == Count(trace, "yajl_parse: yajl_status_ok") = 1
FeedError == Count(trace, "yajl_parse: yajl_status_error") = 1
FinishOk == Count(trace, "yajl_complete_parse: yajl_status_ok") = 1
FinishError == Count(trace, "yajl_complete_parse: yajl_status_error") = 1

\* C2: when parse succeeds (the feed step and the finish step both ok), the
\* stack is empty when the result is taken, the value returned is the root,
\* and teardown finds no frame to free.
C2_SuccessReturnsRootStackEmpty ==
    /\ (call.fn = "parse" /\ pc \in {"result", "teardown"} /\ FeedOk /\ FinishOk) =>
          rv = 0 /\ state.stack = <<>>
    /\ (call.fn = "parse" /\ pc \in {"teardown", "done"} /\ rv = 0) =>
          /\ FeedOk /\ FinishOk
          /\ ret = state.root
          /\ state.stack = <<>>
          /\ pc = "done" => Count(trace, "free_node") = 0

\* C2 witness: a successful parse of nested containers is about to tear down.
C2_Witness ==
    /\ call.fn = "parse" /\ pc = "teardown" /\ rv = 0
    /\ Len(events) = MaxEvents /\ spn_ishashmap(ret) /\ ret.s # <<>>

\* C3: when parse fails on a Lexer error (in the feed step or the finish
\* step), *ret is not written and the root is released once, and never
\* returned.
C3_FailureWritesNothingReleasesRoot ==
    (call.fn = "parse" /\ pc \in {"teardown", "done"} /\ (FeedError \/ FinishError)) =>
        /\ rv # 0
        /\ ret = Unwritten
        /\ Count(trace, "set_ret") = 0
        /\ Count(trace, "release_root") = 1

\* C3 witness: the Lexer fails after the top-level value was complete
\* (trailing garbage), with a container as the root already set.
C3_Witness ==
    /\ ParseDone /\ FeedError /\ yajl_hndl.done
    /\ spn_isarray(state.root) /\ state.root.s # <<>>

\* containers the delivered events leave open
OpenContainers ==
    Count([i \in 1..Len(events) |-> events[i].e], "start_map")
    + Count([i \in 1..Len(events) |-> events[i].e], "start_array")
    - Count([i \in 1..Len(events) |-> events[i].e], "end_map")
    - Count([i \in 1..Len(events) |-> events[i].e], "end_array")

\* C4: a call that ends on an argument error has acquired and released
\* nothing; any other parse has freed its Lexer exactly once when it returns,
\* and has released the key and the container of every frame still stacked
\* and freed the frame; any other generate has freed its Writer exactly once.
C4_TeardownOnEveryExit ==
    /\ Count(trace, "yajl_free") <= 1 /\ Count(trace, "yajl_gen_free") <= 1
    /\ ParseDone =>
          IF json_parse_args(call.argc, call.argv) # 0
          THEN /\ yajl_hndl.st = "none" /\ Len(trace) = 1
               /\ rv = json_parse_args(call.argc, call.argv)
          ELSE /\ Count(trace, "yajl_alloc") = 1
               /\ Count(trace, "yajl_free") = 1
               /\ yajl_hndl.st = "freed"
               /\ Count(trace, "free_node") = OpenContainers
               /\ Count(trace, "release_key") = OpenContainers
               /\ Count(trace, "release_value") = OpenContainers
               /\ state.stack = <<>>
    /\ GenerateDone =>
          IF json_generate_args(call.argc, call.argv) # 0
          THEN /\ gen.st = "none" /\ Len(trace) = 1
               /\ rv = json_generate_args(call.argc, call.argv)
          ELSE /\ Count(trace, "yajl_gen_alloc") = 1
               /\ Count(trace, "yajl_gen_free") = 1
               /\ gen.st = "freed"

\* C4 witness: a parse that failed with as many containers open as the
\* Lexer allows, the innermost a map with a pending key, has returned.
C4_Witness ==
    /\ ParseDone /\ rv = -4
    /\ OpenContainers = MaxDepth
    /\ events[Len(events)].e = "map_key"
    /\ Count(trace, "free_node") = MaxDepth

\* the messages given to spn_ctx_runtime_error
WriterCalls ==
    {"yajl_gen_null(gen)", "yajl_gen_bool(gen, spn_boolvalue(&node))",
     "yajl_gen_integer(gen, spn_intvalue(&node))",
     "yajl_gen_double(gen, spn_floatvalue(&node))", "yajl_gen_string(gen, str, length)",
     "yajl_gen_array_open(gen)", "yajl_gen_array_close(gen)", "yajl_gen_map_open(gen)",
     "yajl_gen_map_close(gen)"}

ErrorReports ==
    {"runtime_error: expecting 1 or 2 arguments",
     "runtime_error: 1st argument must be a string",
     "runtime_error: 2nd argument must be a config object",
     "runtime_error: error parsing JSON",
     "runtime_error: found non-serializable value",
     "runtime_error: found value of unknown type",
     "runtime_error: error generating JSON string"}
    \cup {"runtime_error: YAJL error: " \o w : w \in WriterCalls}

\* positions of the trace at which an error is reported, a handle is freed
Reported == {i \in 1..Len(trace) : trace[i] \in ErrorReports}
Freed == {i \in 1..Len(trace) : trace[i] \in {"yajl_free", "yajl_gen_free"}}
NodesFreed == {i \in 1..Len(trace) : trace[i] = "free_node"}
Acquired == Count(trace, "yajl_alloc") + Count(trace, "yajl_gen_alloc") > 0

\* C5 as claimed: whenever an error has been reported by a call that holds a
\* Lexer or Writer, the handle was freed and the stacked frames were released
\* before the report.
C5_TeardownBeforeReport ==
    \A i \in Reported :
        Acquired =>
            /\ \E j \in Freed : j < i
            /\ call.fn = "parse" =>
                  Cardinality({j \in NodesFreed : j < i}) = OpenContainers

\* C5 as amended: a call that holds a Lexer or Writer and ends in failure has
\* reported exactly one error, while the handle was still live, and has then
\* freed the handle and released every stacked frame before it returns.
C5_ReportThenTeardownBeforeReturn ==
    /\ \A i \in Reported : \A j \in Freed \cup NodesFreed : i < j
    /\ (pc = "done" /\ Acquired /\ rv # 0) =>
          /\ Cardinality(Reported) = 1
          /\ Cardinality(Freed) = 1
          /\ call.fn = "parse" => Cardinality(NodesFreed) = OpenContainers
    /\ (pc = "done" /\ rv = 0) => Reported = {}

\* C5 witness: a parse that the finish step failed, two containers open, has
\* returned.
C5_Witness ==
    /\ ParseDone /\ rv = -5 /\ OpenContainers = 2
    /\ Cardinality(Reported) = 1 /\ Cardinality(NodesFreed) = 2

\* C6: a failed feed step ends parse with -4; a feed step that is ok followed
\* by a failed finish step ends it with -5; in neither case does parse
\* succeed or write *ret.
C6_TwoFailureKinds ==
    (call.fn = "parse" /\ pc \in {"result", "teardown", "done"}) =>
        /\ FeedError => rv = -4
        /\ (FeedOk /\ FinishError) => rv = -5
        /\ (FeedError \/ FinishError) => rv # 0 /\ ret = Unwritten
        /\ (FeedOk /\ FinishOk) => rv = 0

\* C6 witness: the feed step was ok and the finish step failed on a number
\* that follows the complete top-level value ("123 456").
C6_Witness ==
    /\ ParseDone /\ FeedOk /\ FinishError /\ rv = -5
    /\ events = <<Event("integer", 1, "")>> /\ state.root = spn_makeint(1)

\* the (key, value) pairs of the map whose first key or end is event i, in
\* event order
RECURSIVE MapPairs(_, _, _)
MapPairs(evs, i, en) ==
    IF evs[i].e = "end_map" THEN <<>>
    ELSE LET r == DenoteValue(evs, i + 1, en)
         IN  <<[k |-> evs[i].str, v |-> r.v]>> \o MapPairs(evs, r.next, en)

\* a successful parse whose top-level value is a map; its pairs as delivered
TopMapParsed ==
    ParseDone /\ rv = 0 /\ events # <<>> /\ events[1].e = "start_map"
TopPairs == MapPairs(events, 2, state.explicit_null)
Occurrences(pairs, k) == {i \in 1..Len(pairs) : pairs[i].k = k}
Last(pairs, k) ==
    pairs[CHOOSE i \in Occurrences(pairs, k) : \A j \in Occurrences(pairs, k) : j <= i].v
\* the entries of a hashmap under a key
Entries(hashmap, k) ==
    {i \in 1..Len(hashmap.s) : i % 2 = 1 /\ hashmap.s[i] = spn_makestring_len(k)}

\* C7 as claimed: a key the map received more than once has exactly one
\* entry in the finished map, holding the value of the last occurrence.
C7_LastWriteWinsOneEntry ==
    TopMapParsed =>
        \A k \in Keys :
            Cardinality(Occurrences(TopPairs, k)) > 1 =>
                /\ Cardinality(Entries(ret, k)) = 1
                /\ spn_hashmap_get(ret, spn_makestring_len(k)) = Last(TopPairs, k)

\* C7 as amended: a key the map received more than once has exactly one
\* entry, holding the value of the last occurrence, unless that value is
\* Absent (a null with parse_null off): then the map has no entry for it.
C7_LastWriteWinsOrRemoves ==
    TopMapParsed =>
        \A k \in Keys :
            Cardinality(Occurrences(TopPairs, k)) > 1 =>
                IF spn_isnil(Last(TopPairs, k))
                THEN /\ Entries(ret, k) = {}
                     /\ ~state.explicit_null
                ELSE /\ Cardinality(Entries(ret, k)) = 1
                     /\ spn_hashmap_get(ret, spn_makestring_len(k)) = Last(TopPairs, k)

\* C7 witness: {"a":1,"a":null} parsed with parse_null on is the one-entry
\* map a -> ExplicitNull.
C7_Witness ==
    /\ TopMapParsed /\ state.explicit_null
    /\ Cardinality(Occurrences(TopPairs, "a")) = 2
    /\ TopPairs[1].v = spn_makeint(1)
    /\ ret = HashMapOf(<<"a", null_value>>)

\* C7 witness with parse_null off: {"a":null,"a":1} is the map a -> 1.
C7_WitnessOff ==
    /\ TopMapParsed /\ ~state.explicit_null
    /\ Cardinality(Occurrences(TopPairs, "a")) = 2
    /\ ret = HashMapOf(<<"a", spn_makeint(1)>>)

\* the parse_null option as the host gave it: on only if the options object
\* holds the boolean true under "parse_null"
ParseNullGiven ==
    /\ call.argc = 2
    /\ \E i \in 1..Len(call.argv[2].s) :
          /\ i % 2 = 1
          /\ call.argv[2].s[i] = Val("string", 0, "parse_null", <<>>)
          /\ call.argv[2].s[i + 1] = Val("bool", 1, "", <<>>)

InParse ==
    call.fn = "parse" /\ pc \in {"yajl_parse", "yajl_complete_parse", "result", "teardown"}

Sentinel == IF state.explicit_null THEN null_value ELSE spn_nilval

\* the value the Builder attached last sits where attach puts it
LastAttachedIs(v) ==
    IF state.stack = <<>> THEN state.root = v
    ELSE LET top == Head(state.stack)
         IN  IF spn_isarray(top.value)
             THEN top.value.s # <<>> /\ top.value.s[Len(top.value.s)] = v
             ELSE /\ spn_isnil(top.key)
                  /\ events[Len(events) - 1].e = "map_key"
                  /\ spn_hashmap_get(top.value,
                         Val("string", 0, events[Len(events) - 1].str, <<>>)) = v

\* C8: throughout a parse the explicit-null mode is the parse_null option the
\* host gave (off by default); a null event attaches ExplicitNull when the
\* mode is on and Absent when it is off; the single token null parses to
\* ExplicitNull or to Absent accordingly, two unequal values; and generate
\* of either writes exactly one null token.
C8_ExplicitNullMode ==
    /\ (InParse \/ (ParseDone /\ rv \in {0, -4, -5})) =>
          state.explicit_null = ParseNullGiven
    /\ (InParse /\ events # <<>> /\ events[Len(events)].e = "null") =>
          LastAttachedIs(Sentinel)
    /\ (ParseDone /\ rv = 0 /\ events = <<Event("null", 0, "")>>) =>
          /\ ret = Sentinel
          /\ ret = null_value <=> ParseNullGiven
          /\ ret = spn_nilval <=> ~ParseNullGiven
    /\ null_value # spn_nilval
    /\ (GenerateDone /\ rv = 0 /\ call.value \in {spn_nilval, null_value}) =>
          ret.s = <<Event("null", 0, "")>>

\* C8 witness: the text generate wrote for Absent ("null") has been parsed
\* with parse_null on and gave ExplicitNull.
C8_Witness ==
    /\ ParseDone /\ Reparse /\ rv = 0
    /\ call.value = spn_nilval
    /\ call.argv[1].s = <<Event("null", 0, "")>>
    /\ ParseNullGiven /\ ret = null_value

\* The variants the round trip is claimed for.
RECURSIVE Serializable(_)
Serializable(v) ==
    \/ v.t \in {"nil", "bool", "int", "string"}
    \/ v = null_value
    \/ v.t = "array" /\ \A i \in 1..Len(v.s) : Serializable(v.s[i])
    \/ /\ v.t = "hashmap"
       /\ \A i \in 1..Len(v.s) : IF i % 2 = 1 THEN v.s[i].t = "string"
                                 ELSE Serializable(v.s[i])

\* v with every ExplicitNull collapsed to Absent; a pair of a hashmap whose
\* value becomes Absent is no pair any more
RECURSIVE Collapse(_), CollapsePairs(_)
Collapse(v) ==
    IF v = null_value THEN spn_nilval
    ELSE IF v.t = "array" THEN [v EXCEPT !.s = [i \in 1..Len(v.s) |-> Collapse(v.s[i])]]
    ELSE IF v.t = "hashmap" THEN [v EXCEPT !.s = CollapsePairs(v.s)]
    ELSE v
CollapsePairs(kv) ==
    IF kv = <<>> THEN <<>>
    ELSE (IF Collapse(kv[2]) = spn_nilval THEN <<>> ELSE <<kv[1], Collapse(kv[2])>>)
         \o CollapsePairs(SubSeq(kv, 3, Len(kv)))

\* v with every Absent turned into ExplicitNull
RECURSIVE Promote(_)
Promote(v) ==
    IF v = spn_nilval THEN null_value
    ELSE IF v.t \in {"array", "hashmap"}
    THEN [v EXCEPT !.s = [i \in 1..Len(v.s) |-> Promote(v.s[i])]]
    ELSE v

RoundTripDone == ParseDone /\ Reparse /\ Serializable(call.value)

\* C9 as claimed: parsing what generate(v) wrote gives v again, up to the
\* collapse of ExplicitNull to Absent when parse_null is off.
C9_RoundTripModuloCollapse ==
    RoundTripDone =>
        /\ rv = 0
        /\ ret = IF state.explicit_null THEN call.value ELSE Collapse(call.value)

\* C9 as amended: with parse_null off the result is v with ExplicitNull
\* collapsed to Absent (a map pair whose value so becomes Absent is gone);
\* with parse_null on it is v with every Absent turned into ExplicitNull.
C9_RoundTripModuloNulls ==
    RoundTripDone =>
        /\ rv = 0
        /\ ret = IF state.explicit_null THEN Promote(call.value)
                 ELSE Collapse(call.value)

\* C9 witness: a map of two pairs holding an array of both nulls has made
\* the round trip with parse_null off.
C9_Witness ==
    /\ RoundTripDone /\ rv = 0 /\ ~state.explicit_null
    /\ call.value =
          HashMapOf(<<"b", ArrayOf(<<spn_nilval, null_value>>), "a", null_value>>)
    /\ ret = HashMapOf(<<"b", ArrayOf(<<spn_nilval, spn_nilval>>)>>)

\* The depth-first token sequence of a value.
RECURSIVE Tokens(_), TokensOfAll(_)
Tokens(v) ==
    CASE v.t = "nil" -> <<Event("null", 0, "")>>
      [] v = null_value -> <<Event("null", 0, "")>>
      [] v.t = "bool" -> <<Event("bool", v.n, "")>>
      [] v.t = "int" -> <<Event("integer", v.n, "")>>
      [] v.t = "float" -> <<Event("double", v.n, "")>>
      [] v.t = "string" -> <<Event("string", 0, v.str)>>
      [] v.t = "array" ->
            <<Event("array_open", 0, "")>> \o TokensOfAll(v.s) \o <<Event("array_close", 0, "")>>
      [] v.t = "hashmap" ->
            <<Event("map_open", 0, "")>> \o TokensOfAll(v.s) \o <<Event("map_close", 0, "")>>
      [] OTHER -> <<>>
TokensOfAll(vs) == IF vs = <<>> THEN <<>> ELSE Tokens(Head(vs)) \o TokensOfAll(Tail(vs))

\* every close matches the latest open still unmatched, and none stays open
RECURSIVE WellNested(_, _)
WellNested(toks, open) ==
    IF toks = <<>> THEN open = <<>>
    ELSE LET tok == Head(toks)
         IN  CASE tok.e = "array_open" -> WellNested(Tail(toks), <<"array">> \o open)
               [] tok.e = "map_open" -> WellNested(Tail(toks), <<"map">> \o open)
               [] tok.e = "array_close" ->
                     open # <<>> /\ Head(open) = "array" /\ WellNested(Tail(toks), Tail(open))
               [] tok.e = "map_close" ->
                     open # <<>> /\ Head(open) = "map" /\ WellNested(Tail(toks), Tail(open))
               [] OTHER -> WellNested(Tail(toks), open)

\* C10: a successful generate has given the Writer exactly the depth-first
\* token sequence of its argument, a well-nested sequence, and returns it.
C10_DepthFirstTokens ==
    (call.fn = "generate" /\ rv = 0 /\ pc \in {"get_buf", "teardown", "done"}) =>
        /\ gen.buf = Tokens(call.value)
        /\ WellNested(gen.buf, <<>>)
        /\ pc = "done" => ret.s = gen.buf

\* C10 witness: generate of [1,[2,3],{"k":4}] has returned its eleven tokens.
C10_Witness ==
    /\ GenerateDone /\ rv = 0
    /\ call.value = ArrayOf(<<spn_makeint(1), ArrayOf(<<spn_makeint(2), spn_makeint(3)>>),
                              HashMapOf(<<"k", spn_makeint(4)>>)>>)
    /\ ret.s = <<Event("array_open", 0, ""), Event("integer", 1, ""),
                 Event("array_open", 0, ""), Event("integer", 2, ""),
                 Event("integer", 3, ""), Event("array_close", 0, ""),
                 Event("map_open", 0, ""), Event("string", 0, "k"),
                 Event("integer", 4, ""), Event("map_close", 0, ""),
                 Event("array_close", 0, "")>>

\* every key of every hashmap in v is a string
RECURSIVE AllKeysStrings(_)
AllKeysStrings(v) ==
    IF v.t = "array" THEN \A i \in 1..Len(v.s) : AllKeysStrings(v.s[i])
    ELSE IF v.t = "hashmap"
    THEN \A i \in 1..Len(v.s) : IF i % 2 = 1 THEN v.s[i].t = "string"
                                ELSE AllKeysStrings(v.s[i])
    ELSE TRUE

\* In a token sequence, open lists the containers still open, innermost
\* first, a map as "key" or "value" by what is due next in it: every token
\* where a key is due is a string (or closes the map), and each key is
\* followed by one value.
RECURSIVE KeysThenValues(_, _)
KeysThenValues(toks, open) ==
    IF toks = <<>> THEN TRUE
    ELSE LET tok == Head(toks)
             keydue == open # <<>> /\ Head(open) = "key"
             after == IF open = <<>> THEN open
                      ELSE IF Head(open) = "key" THEN <<"value">> \o Tail(open)
                      ELSE IF Head(open) = "value" THEN <<"key">> \o Tail(open)
                      ELSE open
         IN  IF keydue
             THEN CASE tok.e = "string" -> KeysThenValues(Tail(toks), after)
                    [] tok.e = "map_close" ->
                          KeysThenValues(Tail(toks),
                              LET rest == Tail(open)
                              IN  IF rest = <<>> THEN rest
                                  ELSE IF Head(rest) = "value" THEN <<"key">> \o Tail(rest)
                                  ELSE rest)
                    [] OTHER -> FALSE
             ELSE CASE tok.e = "array_open" -> KeysThenValues(Tail(toks), <<"array">> \o open)
                    [] tok.e = "map_open" -> KeysThenValues(Tail(toks), <<"key">> \o open)
                    [] tok.e = "map_close" -> FALSE
                    [] tok.e = "array_close" ->
                          /\ open # <<>> /\ Head(open) = "array"
                          /\ KeysThenValues(Tail(toks),
                                LET rest == Tail(open)
                                IN  IF rest = <<>> THEN rest
                                    ELSE IF Head(rest) = "value" THEN <<"key">> \o Tail(rest)
                                    ELSE rest)
                    [] OTHER -> KeysThenValues(Tail(toks), after)

GenerateOk == call.fn = "generate" /\ rv = 0 /\ pc \in {"get_buf", "teardown", "done"}

\* C11 as claimed: whatever key a map holds, the Writer call generate makes
\* where a key is due is the one for a string.
C11_KeyCallAlwaysString ==
    (pc = "generate_recursive" /\ gstack # <<>> /\ GenAtKey(gen)) =>
        LET c == generate_recursive_call(Head(gstack).node, Head(gstack).i)
        IN  c.do \in {"emit", "open"} => c.tok.e \in {"string", "map_close"}

\* C11 as amended: in the Writer's buffer every pair is a key followed by
\* its value and every token in key position is a string; a generate that
\* succeeds met string keys only; a value holding a map with a key that is
\* not a string makes generate fail with -1, the result unwritten.
C11_StringKeysOrFailure ==
    /\ KeysThenValues(gen.buf, <<>>)
    /\ GenerateOk => AllKeysStrings(call.value)
    /\ (GenerateDone /\ ~AllKeysStrings(call.value)) => rv = -1 /\ ret = Unwritten

\* C11 witness: generate of a map with the integer key 1 has failed after
\* opening the map, and the call the Writer refused was yajl_gen_integer.
C11_Witness ==
    /\ GenerateDone /\ rv = -1 /\ ret = Unwritten
    /\ call.value = spn_hashmap_set(spn_makehashmap, spn_makeint(1), spn_makestring_len("a"))
    /\ gen.buf = <<Event("map_open", 0, "")>>
    /\ trace[Len(trace) - 1] =
          "runtime_error: YAJL error: yajl_gen_integer(gen, spn_intvalue(&node))"

\* C11 witness of the string case: a map of one pair has been written.
C11_WitnessStrings ==
    /\ GenerateDone /\ rv = 0
    /\ call.value = HashMapOf(<<"a", spn_makeint(1)>>)
    /\ ret.s = <<Event("map_open", 0, ""), Event("string", 0, "a"), Event("integer", 1, ""),
                 Event("map_close", 0, "")>>

\* v is, or holds at some depth, a value of an unrecognized or opaque variant
RECURSIVE HasOpaque(_)
HasOpaque(v) ==
    IF v.t \in {"array", "hashmap"} THEN \E i \in 1..Len(v.s) : HasOpaque(v.s[i])
    ELSE /\ v.t \notin {"nil", "bool", "int", "float", "string"}
         /\ v # null_value

GenerateEntered == call.fn = "generate" /\ json_generate_args(call.argc, call.argv) = 0

\* C12: a generate whose argument is or holds an unrecognized or opaque value
\* other than null_value never gets to write the result, and when it is done
\* it has failed with -1 and one error reported, the result slot is
\* unwritten and the Writer is freed.
C12_OpaqueFailsNoPartialOutput ==
    (GenerateEntered /\ HasOpaque(call.value)) =>
        /\ ret = Unwritten
        /\ pc # "get_buf"
        /\ Count(trace, "set_ret") = 0
        /\ pc = "done" =>
              /\ rv = -1
              /\ gen.st = "freed"
              /\ Count(trace, "yajl_gen_free") = 1
              /\ Cardinality(Reported) = 1

\* C12 witness: generate of [[[], nil], opaque] has failed at the opaque
\* value with six tokens in the Writer's buffer, none of them returned.
C12_Witness ==
    /\ GenerateDone /\ rv = -1 /\ ret = Unwritten /\ gen.st = "freed"
    /\ call.value = ArrayOf(<<ArrayOf(<<ArrayOf(<<>>), spn_nilval>>), OpaqueValue>>)
    /\ Len(gen.buf) = 6
    /\ trace[Len(trace) - 1] = "runtime_error: found non-serializable value"

GenerateFailed == GenerateEntered /\ Reported # {}

\* C13: once generate has reported an error the walk is over: no activation
\* of generate_recursive is left, exactly one error has been reported, the
\* call is on its way out with a failure and an unwritten result, and from
\* then on the Writer takes no further token and no further error is
\* reported.
C13_FirstFailureAborts ==
    /\ [](GenerateFailed =>
            /\ gstack = <<>>
            /\ pc \in {"teardown", "done"}
            /\ Cardinality(Reported) = 1
            /\ rv \in {-1, -3}
            /\ ret = Unwritten)
    /\ [][(GenerateFailed /\ call'.fn = "generate") =>
            /\ gen'.buf = gen.buf
            /\ gen'.stack = gen.stack
            /\ Reported' = Reported]_vars

\* C13 witness: generate of [opaque, 1] has failed at the first element and
\* returned; the sibling 1 and the close of the array were never written.
C13_Witness ==
    /\ GenerateDone /\ rv = -1
    /\ call.value = ArrayOf(<<OpaqueValue, spn_makeint(1)>>)
    /\ gen.buf = <<Event("array_open", 0, "")>>
    /\ Cardinality(Reported) = 1

\* the options object of the running call; none given is an empty one
OptionsGiven == IF call.argc = 2 THEN call.argv[2] ELSE spn_makehashmap

\* the entry of the options object under name, if it is of the type wanted
OptionEntry(cfg, name, type) ==
    {i \in 1..Len(cfg.s) : /\ i % 2 = 0
                           /\ cfg.s[i - 1] = Val("string", 0, name, <<>>)
                           /\ cfg.s[i].t = type}

BoolOption(cfg, name) == \E i \in OptionEntry(cfg, name, "bool") : cfg.s[i].n = 1

StringOption(cfg, name) ==
    IF OptionEntry(cfg, name, "string") = {} THEN ""
    ELSE cfg.s[CHOOSE i \in OptionEntry(cfg, name, "string") : TRUE].str

\* cfg without the entries that are not an option of the given types
RECURSIVE OnlyOptions(_, _)
OnlyOptions(kv, types) ==
    IF kv = <<>> THEN <<>>
    ELSE (IF kv[1].t = "string" /\ <<kv[1].str, kv[2].t>> \in types
          THEN <<kv[1], kv[2]>> ELSE <<>>)
         \o OnlyOptions(SubSeq(kv, 3, Len(kv)), types)

ParseOptions == {<<"comment", "bool">>, <<"parse_null", "bool">>}
GenOptions == {<<"beautify", "bool">>, <<"indent", "string">>, <<"escape_slash", "bool">>}
WithoutOthers(cfg, types) == [cfg EXCEPT !.s = OnlyOptions(cfg.s, types)]

ParseEntered ==
    call.fn = "parse" /\ json_parse_args(call.argc, call.argv) = 0

\* C14: whatever the options object holds, a call with valid arguments is
\* not ended by option handling, and each setting is the value of its own
\* option when that is given with the right type and the default otherwise;
\* an entry under another name or of another type changes nothing: the
\* settings are those the options object without that entry gives.
C14_OptionsNeverFailNorLeak ==
    /\ ParseEntered =>
          /\ trace # <<>> /\ trace[1] = "yajl_alloc"
          /\ yajl_hndl.allow_comments = BoolOption(OptionsGiven, "comment")
          /\ state.explicit_null = BoolOption(OptionsGiven, "parse_null")
          /\ config_parser_hndl(yajl_alloc, OptionsGiven) =
                config_parser_hndl(yajl_alloc, WithoutOthers(OptionsGiven, ParseOptions))
          /\ config_parser_state(state_init, OptionsGiven) =
                config_parser_state(state_init, WithoutOthers(OptionsGiven, ParseOptions))
    /\ GenerateEntered =>
          /\ trace # <<>> /\ trace[1] = "yajl_gen_alloc"
          /\ gen.beautify = BoolOption(OptionsGiven, "beautify")
          /\ gen.indent = StringOption(OptionsGiven, "indent")
          /\ gen.escape_solidus = BoolOption(OptionsGiven, "escape_slash")
          /\ config_gen(yajl_gen_alloc, OptionsGiven) =
                config_gen(yajl_gen_alloc, WithoutOthers(OptionsGiven, GenOptions))

\* C14 witness: a parse given a string for parse_null and an integer for
\* comment has run to a successful end with both settings off.
C14_Witness ==
    /\ ParseDone /\ rv = 0 /\ events # <<>>
    /\ call.argc = 2
    /\ call.argv[2] =
          HashMapOf(<<"parse_null", spn_makestring_len("a"), "comment", spn_makeint(1)>>)
    /\ ~state.explicit_null /\ ~yajl_hndl.allow_comments

\* C14 witness for generate: a string for beautify and an integer for indent.
C14_WitnessGen ==
    /\ GenerateDone /\ rv = 0
    /\ call.argc = 2
    /\ call.argv[2] = HashMapOf(<<"beautify", spn_makestring_len("a"), "indent", spn_makeint(1)>>)
    /\ ~gen.beautify /\ gen.indent = ""

\* what is wrong with the arguments of the running call, if anything
ArgumentFault ==
    IF call.argc < 1 \/ call.argc > 2 THEN "arity"
    ELSE IF call.fn = "parse" /\ call.argv[1].t # "string" THEN "first"
    ELSE IF call.argc = 2 /\ call.argv[2].t # "hashmap" THEN "second"
    ELSE "none"

\* C15: a parse or generate called with a wrong number of arguments, a parse
\* whose first argument is not a string, and a parse or generate whose second
\* argument is not a hashmap, has returned an argument error with one report
\* and nothing else done: no result written, no Lexer or Writer allocated,
\* no event given to the Builder, no activation of the walk.
C15_ArgumentErrorsBeforeWork ==
    (call.fn \in {"parse", "generate"} /\ ArgumentFault # "none") =>
        /\ pc = "done"
        /\ rv = CASE ArgumentFault = "arity" -> -1
                  [] ArgumentFault = "first" -> -2
                  [] OTHER -> IF call.fn = "parse" THEN -3 ELSE -2
        /\ ret = Unwritten
        /\ Len(trace) = 1 /\ Cardinality(Reported) = 1
        /\ ~Acquired
        /\ yajl_hndl = yajl_none /\ gen = gen_none
        /\ events = <<>> /\ state = state_init /\ gstack = <<>>

\* C15 witness: parse has been called with a nil first argument and has
\* returned -2.
C15_Witness ==
    /\ ParseDone /\ rv = -2 /\ ret = Unwritten
    /\ call.argc = 2 /\ call.argv[1] = spn_nilval
    /\ trace = <<"runtime_error: 1st argument must be a string">>

\* C15 witness for generate: a second argument that is a string.
C15_WitnessGen ==
    /\ GenerateDone /\ rv = -2 /\ ret = Unwritten
    /\ call.argc = 2 /\ call.argv[2].t = "string"
    /\ gen = gen_none

StartEvents == {"start_map", "start_array"}
EndEvents == {"end_map", "end_array"}
ValueEvents == {"null", "boolean", "integer", "double", "string"}

\* the frames of the stack, and whether the top frame has a key pending
FrameKeysShaped ==
    \A i \in 1..Len(state.stack) :
        LET frame == state.stack[i]
        IN  /\ spn_isnil(frame.key) \/ spn_isstring(frame.key)
            /\ spn_isarray(frame.value) \/ spn_ishashmap(frame.value)
            /\ spn_isarray(frame.value) => spn_isnil(frame.key)
            \* a map below the top waits for the child open above it
            /\ (i > 1 /\ spn_ishashmap(frame.value)) => spn_isstring(frame.key)
            \* the top map has a key pending exactly after a key event
            /\ (i = 1 /\ spn_ishashmap(frame.value)) =>
                  IF events # <<>> /\ events[Len(events)].e = "map_key"
                  THEN frame.key = Val("string", 0, events[Len(events)].str, <<>>)
                  ELSE spn_isnil(frame.key)

\* the step is the processing of one more event of the running parse
EventStep == call.fn = "parse" /\ call' = call /\ Len(events') = Len(events) + 1
StepEvent == events'[Len(events')]
TopKeyAbsent(st) == st.stack # <<>> /\ spn_isnil(Head(st.stack).key)

BuilderAsserts(st, ev) ==
    CASE ev.e \in ValueEvents -> set_value_asserts(st)
      [] ev.e = "map_key" ->
            /\ st.stack # <<>>
            /\ spn_isnil(Head(st.stack).key)
            /\ spn_ishashmap(Head(st.stack).value)
      [] ev.e \in EndEvents ->
            /\ st.stack # <<>>
            /\ spn_isnil(Head(st.stack).key)
            /\ set_value_asserts([st EXCEPT !.stack = Tail(@)])
      [] OTHER -> TRUE

\* every event the Lexer's ordering allows next, whatever its payload
Allowed ==
    {ev \in FreeEvents \cup {Event("boolean", 1, ""), Event("double", 15, "")} :
        LexAccepts(yajl_hndl, ev)}

\* C17: no assertion of the Builder fails: the process never aborts, and in
\* every state of a parse, also on the way to an error of the Lexer, each
\* event the Lexer's ordering allows next meets the assertions of its
\* callback, as does a number the Lexer holds back until the parse is
\* completed.
C17_NoAssertionFails ==
    /\ pc # "abort"
    /\ (call.fn = "parse" /\ pc = "yajl_parse") =>
          \A ev \in Allowed : BuilderAsserts(state, ev)
    /\ (call.fn = "parse" /\ pc = "yajl_complete_parse"
        /\ yajl_hndl.pending # <<>> /\ LexWantsValue(yajl_hndl)) =>
          BuilderAsserts(state, Head(yajl_hndl.pending))

\* C17 witness: after { "a" : [ ] "b" the Lexer has rejected the text; the
\* pop, the attach under a key and two key events have passed their
\* assertions on the way.
C17_Witness ==
    /\ ParseDone /\ rv = -4
    /\ events = <<Event("start_map", 0, ""), Event("map_key", 0, "a"),
                  Event("start_array", 0, ""), Event("end_array", 0, ""),
                  Event("map_key", 0, "b")>>

ObjectIds == 1..Len(heap.objs)
Live == {id \in ObjectIds : ~heap.objs[id].freed}

\* what the live containers hold, one after the other
RECURSIVE KidsOfLive(_)
KidsOfLive(n) ==
    IF n = 0 THEN <<>>
    ELSE KidsOfLive(n - 1) \o (IF heap.objs[n].freed THEN <<>> ELSE heap.objs[n].kids)

\* how many references to id the root, the stacked frames and the live
\* containers hold
Holders(id) ==
    (IF heap.root = id THEN 1 ELSE 0)
    + Count([i \in 1..Len(heap.stack) |-> heap.stack[i].key], id)
    + Count([i \in 1..Len(heap.stack) |-> heap.stack[i].value], id)
    + Count(KidsOfLive(Len(heap.objs)), id)

\* the objects reachable from id
RECURSIVE ReachableFrom(_)
ReachableFrom(id) ==
    IF id = 0 THEN {}
    ELSE {id} \cup UNION {ReachableFrom(heap.objs[id].kids[i]) :
                             i \in 1..Len(heap.objs[id].kids)}

\* the objects a value is made of
RECURSIVE ObjectsOf(_), ObjectsOfAll(_)
ObjectsOf(v) ==
    IF v.t = "string" THEN 1
    ELSE IF v.t \in {"array", "hashmap"} THEN 1 + ObjectsOfAll(v.s)
    ELSE 0
ObjectsOfAll(vs) ==
    IF vs = <<>> THEN 0 ELSE ObjectsOf(Head(vs)) + ObjectsOfAll(Tail(vs))

Created == {i \in 1..Len(events) :
               events[i].e \in {"string", "map_key", "start_map", "start_array"}}

\* C18: no object the Builder created is released after it was freed; while
\* the parse runs each object has exactly the references its holders (the
\* root, a stacked frame, one live container) account for; a parse that
\* failed has freed every object it created, whatever was still open; after
\* a successful one exactly the objects of the returned root are alive, each
\* with one owner.
C18_OwnershipBalanced ==
    /\ heap.bad = 0
    /\ call.fn = "parse" => Len(heap.objs) = Cardinality(Created)
    /\ (call.fn = "parse" /\ pc \in {"yajl_parse", "yajl_complete_parse", "result"}) =>
          /\ Len(heap.stack) = Len(state.stack)
          /\ \A id \in ObjectIds :
                IF heap.objs[id].freed THEN Holders(id) = 0
                ELSE heap.objs[id].rc = Holders(id) /\ Holders(id) = 1
    /\ (ParseDone /\ rv \in {-4, -5}) =>
          /\ Live = {}
          /\ \A id \in ObjectIds : heap.objs[id].rc = 0
    /\ (ParseDone /\ rv = 0) =>
          /\ Live = ReachableFrom(heap.root)
          /\ \A id \in Live : heap.objs[id].rc = 1
          /\ Cardinality(Live) = ObjectsOf(ret)

\* C18 witness: the Lexer has rejected [ "a" [ "a" { "a" with three
\* containers open, a child in each array and a key pending; all six
\* objects are freed.
C18_Witness ==
    /\ ParseDone /\ rv = -4
    /\ events = <<Event("start_array", 0, ""), Event("string", 0, "a"),
                  Event("start_array", 0, ""), Event("string", 0, "a"),
                  Event("start_map", 0, ""), Event("map_key", 0, "a")>>
    /\ Len(heap.objs) = 6 /\ Live = {} /\ heap.bad = 0

\* the number of containers open before event i
DepthBefore(i) ==
    Cardinality({j \in 1..(i - 1) : events[j].e \in StartEvents})
    - Cardinality({j \in 1..(i - 1) : events[j].e \in EndEvents})

\* the events that are elements of the top-level array
TopElements ==
    {i \in 1..Len(events) :
        DepthBefore(i) = 1 /\ events[i].e \in ValueEvents \cup StartEvents}

TopArrayParsed ==
    ParseDone /\ rv = 0 /\ events # <<>> /\ events[1].e = "start_array"

\* C19: with parse_null off, a null given as a map's value leaves the map
\* without an entry for the pending key, also when the map held one, and the
\* key is cleared; in the finished map a key whose last value was null reads
\* as Absent, as a key that never occurred does; a null given as an array's
\* element appends Absent, so a finished array has one element per element
\* event, Absent where the event was null.
C19_NullDeletesInMapAppendsInArray ==
    /\ [](TopMapParsed /\ ~state.explicit_null =>
            \A k \in Keys \cup {"c"} :
                LET got == spn_hashmap_get(ret, spn_makestring_len(k))
                IN  IF Occurrences(TopPairs, k) = {} THEN spn_isnil(got)
                    ELSE spn_isnil(Last(TopPairs, k)) =>
                            spn_isnil(got) /\ Entries(ret, k) = {})
    /\ [](TopArrayParsed /\ ~state.explicit_null =>
            /\ Len(ret.s) = Cardinality(TopElements)
            /\ \A i \in TopElements :
                  events[i].e = "null" =>
                      spn_isnil(ret.s[Cardinality({j \in TopElements : j <= i})]))
    /\ [][(EventStep /\ StepEvent.e = "null" /\ ~state.explicit_null
           /\ state.stack # <<>>) =>
            LET top == Head(state.stack)
                after == Head(state'.stack)
            IN  /\ Len(state'.stack) = Len(state.stack)
                /\ IF spn_ishashmap(top.value)
                   THEN /\ spn_isstring(top.key)
                        /\ spn_isnil(after.key)
                        /\ KeyIndex(after.value.s, top.key, 1) = 0
                        /\ spn_isnil(spn_hashmap_get(after.value, top.key))
                   ELSE after.value.s = Append(top.value.s, spn_nilval)]_vars

\* C19 witness: {"a":1,"a":null} parsed with parse_null off is the empty map.
C19_Witness ==
    /\ TopMapParsed /\ ~state.explicit_null
    /\ events = <<Event("start_map", 0, ""), Event("map_key", 0, "a"),
                  Event("integer", 1, ""), Event("map_key", 0, "a"),
                  Event("null", 0, ""), Event("end_map", 0, "")>>
    /\ ret = spn_makehashmap

\* C19 witness for arrays: [null, 1, null] parsed with parse_null off has
\* three elements.
C19_WitnessArray ==
    /\ TopArrayParsed /\ ~state.explicit_null
    /\ events = <<Event("start_array", 0, ""), Event("null", 0, ""),
                  Event("integer", 1, ""), Event("null", 0, ""),
                  Event("end_array", 0, "")>>
    /\ ret = ArrayOf(<<spn_nilval, spn_makeint(1), spn_nilval>>)

\* the events that complete a top-level value
TopCompletions ==
    {i \in 1..Len(events) :
        \/ DepthBefore(i) = 0 /\ events[i].e \in ValueEvents
        \/ DepthBefore(i) = 1 /\ events[i].e \in EndEvents}

\* C20: a parse starts with an empty stack and an Absent root; after any
\* events the stack is as deep as the starts outnumber the ends; the root is
\* Absent as long as no top-level value has been completed, so whenever the
\* stack is not empty; at most one event completes a top-level value, only
\* such an event changes the root, and it finds the root Absent.
C20_ParserStateShape ==
    /\ [](InParse =>
            /\ events = <<>> => state.stack = <<>> /\ spn_isnil(state.root)
            /\ Len(state.stack) = OpenContainers
            /\ \A i \in 1..Len(events) : DepthBefore(i + 1) >= 0
            /\ TopCompletions = {} => spn_isnil(state.root)
            /\ state.stack # <<>> => spn_isnil(state.root)
            /\ Cardinality(TopCompletions) <= 1)
    /\ [][(call.fn = "parse" /\ call' = call /\ state'.root # state.root) =>
            /\ EventStep
            /\ spn_isnil(state.root)
            /\ TopCompletions = {}
            /\ state'.stack = <<>>]_vars

\* C20 witness: after [ [ ] [ { three frames are stacked and the root is
\* Absent.
C20_Witness ==
    /\ InParse /\ pc = "yajl_parse"
    /\ events = <<Event("start_array", 0, ""), Event("start_array", 0, ""),
                  Event("end_array", 0, ""), Event("start_array", 0, ""),
                  Event("start_map", 0, "")>>
    /\ Len(state.stack) = 3 /\ spn_isnil(state.root)

\* C20 witness of the one assignment: [ [ ] ] is complete, the root is the
\* array and the stack is empty again.
C20_WitnessRoot ==
    /\ InParse /\ pc = "result" /\ rv = 0
    /\ Len(events) = 4 /\ TopCompletions = {4}
    /\ state.root = ArrayOf(<<ArrayOf(<<>>)>>) /\ state.stack = <<>>

====
